---------------------------- MODULE Spec2Model ----------------------------
(***************************************************************************)
(* video_2_anki (src/main.py): a recording is transcribed into words with  *)
(* timestamps, the words are aligned with the sentences of a sentence      *)
(* splitter, one audio clip is cut per sentence, the sentences are         *)
(* translated and an Anki import file is written.                          *)
(*                                                                         *)
(* Text is a sequence of one-character strings, so that strip, split, join *)
(* and the formatting of file names and record lines are computed and not  *)
(* assumed.  Timestamps and the audio buffer lie on an integer grid.       *)
(* An optional value (Python's None) is a record [some, val].              *)
(***************************************************************************)
EXTENDS Integers, Sequences, FiniteSets, TLC

VARIABLES
    pc,                  \* position of the run / of the function under test
    err,                 \* the exception that ended it, "none" otherwise
    failed_in,           \* the stage of main that raised, "none" otherwise
    source,              \* main's source argument: [has_youtube, starts_http]
    json_transcribe_file,\* main's argument is given (a Path) or None
    save_json_file,      \* main's argument is given (a Path) or None
    tmp_dir,             \* the TemporaryDirectory of a remote source
    ext_log,             \* external collaborators called so far, in order
    data,                \* the transcript's segments (data["segments"])
    words_ts,            \* the flattened (text, start, end) triples
    audio_buffer,
    doc_sents,           \* the sentence texts doc.sents has yielded so far
    word_idx,
    end_word_idx,
    sentence_ts,
    align_ret,           \* what build_sentence_start_end returned: [some, val]
    timestamps,          \* split_video_into_audio_seg: (start, end) labels
    out_name,
    created_files,
    slicer_log,          \* one entry per slicer invocation: [n, fname, status]
    split_ret,           \* what split_video_into_audio_seg returned: [some, val]
    sentences,           \* write_anki_import's arguments
    translation,
    audio_files,
    tags,
    file,                \* the output file: [exists, content]
    file_opened,         \* write_anki_import has opened the file for writing
    wi                   \* write_anki_import's loop index (enumerate), 0-based

vars == <<pc, err, failed_in, source, json_transcribe_file, save_json_file,
          tmp_dir, ext_log, data, words_ts, audio_buffer, doc_sents, word_idx,
          end_word_idx, sentence_ts, align_ret, timestamps, out_name,
          created_files, slicer_log, split_ret, sentences, translation,
          audio_files, tags, file, file_opened, wi>>

-----------------------------------------------------------------------------
(* Bounds of the model *)

MaxWords == 2
MaxSents == 2
MaxTime == 1
MaxBuffer == 1
MaxSegs == 2
MaxClips == 2
MaxCards == 2

-----------------------------------------------------------------------------
(* Optional values *)

Nothing == [some |-> FALSE, val |-> <<>>]
Some(v) == [some |-> TRUE, val |-> v]

SeqsUpTo(S, n) == UNION {[1..k -> S] : k \in 0..n}

-----------------------------------------------------------------------------
(* Text: str.strip, str.split(" "), " ".join, str(int) *)

SP == " "
NL == "\n"
Whitespace == {SP, NL}

RECURSIVE LStrip(_)
LStrip(t) ==
    IF t # <<>> /\ Head(t) \in Whitespace THEN LStrip(Tail(t)) ELSE t

RECURSIVE RStrip(_)
RStrip(t) ==
    IF t # <<>> /\ t[Len(t)] \in Whitespace
    THEN RStrip(SubSeq(t, 1, Len(t) - 1))
    ELSE t

\* str.strip()
Strip(t) == RStrip(LStrip(t))

\* str.split(sep) for a one-character sep: one piece more than there are
\* separators, empty pieces kept
RECURSIVE SplitOn(_, _, _)
SplitOn(t, sep, cur) ==
    IF t = <<>> THEN <<cur>>
    ELSE IF Head(t) = sep THEN <<cur>> \o SplitOn(Tail(t), sep, <<>>)
    ELSE SplitOn(Tail(t), sep, Append(cur, Head(t)))

Split(t, sep) == SplitOn(t, sep, <<>>)

\* sep.join(parts)
RECURSIVE Join(_, _)
Join(sep, parts) ==
    IF parts = <<>> THEN <<>>
    ELSE IF Len(parts) = 1 THEN parts[1]
    ELSE parts[1] \o sep \o Join(sep, Tail(parts))

Digit(d) == <<"0", "1", "2", "3", "4", "5", "6", "7", "8", "9">>[d + 1]

RECURSIVE NatStr(_)
NatStr(k) == IF k < 10 THEN <<Digit(k)>> ELSE Append(NatStr(k \div 10), Digit(k % 10))

\* str(k) of an integer
Str(k) == IF k < 0 THEN <<"-">> \o NatStr(0 - k) ELSE NatStr(k)

-----------------------------------------------------------------------------
(* The constants of the file format *)

FILE_DELIM == <<";">>
TAGS(t) == <<"#", "t", "a", "g", "s", ":">> \o t
AUDIO_FMT(fname) == <<"[", "s", "o", "u", "n", "d", ":">> \o fname \o <<"]">>
BR == <<"<", "b", "r", ">">>
CLIP == <<"-", "c", "l", "i", "p", ".", "m", "p", "4">>

-----------------------------------------------------------------------------
(* Input domains *)

Times == 0..MaxTime
Buffers == (0 - 1)..MaxBuffer
WordTexts == {<<"a">>, <<"b">>}

\* what build_words_with_ts can return: stripped text, any two timestamps
WordTriples == WordTexts \X Times \X Times

\* sentence texts: a first word and n - 1 further words, single spaces between
SentTexts ==
    {Join(<<SP>>, [j \in 1..n |-> IF j = 1 THEN f ELSE <<"a">>]) :
        f \in WordTexts, n \in 1..MaxWords}

-----------------------------------------------------------------------------
(* build_sentence_start_end *)

\* assert sent_words[0] == words_ts[word_idx][0]
FirstWordMatches_Off(sent_words, w) == TRUE

FirstWordMatches(sent_words, w) == sent_words[1] = w[1]

SentStart_Always(w, b) == w[2] - b

SentStart(w, b) == IF w[2] > 0 THEN w[2] - b ELSE w[2]

SentEnd_Minus(w, b) == w[3] - b

SentEnd(w, b) == w[3] + b

\* the locals before the loop
AlignEnter ==
    /\ pc = "align_call"
    /\ sentence_ts' = <<>>
    /\ word_idx' = 0
    /\ end_word_idx' = 0
    /\ doc_sents' = <<>>
    /\ pc' = "align"
    /\ UNCHANGED <<err, failed_in, source, json_transcribe_file, save_json_file,
                   tmp_dir, ext_log, data, words_ts, audio_buffer, align_ret,
                   timestamps, out_name, created_files, slicer_log, split_ret,
                   sentences, translation, audio_files, tags, file,
                   file_opened, wi>>

\* one iteration of `for sent in doc.sents`, the sentence drawn as doc.sents
\* yields it.  An exception leaves the function: nothing is returned.
AlignStep ==
    /\ pc = "align"
    /\ Len(doc_sents) < MaxSents
    /\ \E sent \in SentTexts :
         LET sent_words == Split(sent, SP)
             new_end == end_word_idx + Len(sent_words)
         IN  /\ doc_sents' = Append(doc_sents, sent)
             /\ end_word_idx' = new_end
             /\ IF word_idx >= Len(words_ts)
                   THEN \* words_ts[word_idx]: not caught by `except AssertionError`
                        /\ pc' = "raised" /\ err' = "IndexError"
                        /\ failed_in' = "align"
                        /\ UNCHANGED <<sentence_ts, word_idx>>
                   ELSE IF ~FirstWordMatches(sent_words, words_ts[word_idx + 1])
                   THEN \* logged and raised again
                        /\ pc' = "raised" /\ err' = "AssertionError"
                        /\ failed_in' = "align"
                        /\ UNCHANGED <<sentence_ts, word_idx>>
                   ELSE IF new_end - 1 >= Len(words_ts)
                   THEN \* words_ts[end_word_idx - 1]
                        /\ pc' = "raised" /\ err' = "IndexError"
                        /\ failed_in' = "align"
                        /\ UNCHANGED <<sentence_ts, word_idx>>
                   ELSE /\ sentence_ts' = Append(sentence_ts,
                              <<SentStart(words_ts[word_idx + 1], audio_buffer),
                                SentEnd(words_ts[new_end], audio_buffer),
                                sent>>)
                        /\ word_idx' = new_end
                        /\ UNCHANGED <<pc, err, failed_in>>
    /\ UNCHANGED <<source, json_transcribe_file, save_json_file, tmp_dir,
                   ext_log, data, words_ts, audio_buffer, align_ret, timestamps,
                   out_name, created_files, slicer_log, split_ret, sentences,
                   translation, audio_files, tags, file, file_opened, wi>>

\* doc.sents is exhausted: return sentence_ts
AlignReturn ==
    /\ pc = "align"
    /\ align_ret' = Some(sentence_ts)
    /\ pc' = "align_ret"
    /\ UNCHANGED <<err, failed_in, source, json_transcribe_file, save_json_file,
                   tmp_dir, ext_log, data, words_ts, audio_buffer, doc_sents,
                   word_idx, end_word_idx, sentence_ts, timestamps, out_name,
                   created_files, slicer_log, split_ret, sentences, translation,
                   audio_files, tags, file, file_opened, wi>>

NoFile == [exists |-> FALSE, content |-> <<>>]
OldFile == [exists |-> TRUE, content |-> <<"o", "l", "d", NL>>]
LocalSource == [has_youtube |-> FALSE, starts_http |-> FALSE]

\* the variables a function under test does not touch
Idle ==
    /\ err = "none" /\ failed_in = "none"
    /\ source = LocalSource
    /\ json_transcribe_file = FALSE /\ save_json_file = FALSE
    /\ tmp_dir = "none" /\ ext_log = <<>> /\ data = <<>>

InitAlignLocals ==
    /\ doc_sents = <<>> /\ word_idx = 0 /\ end_word_idx = 0
    /\ sentence_ts = <<>> /\ align_ret = Nothing

InitSplitLocals ==
    /\ timestamps = <<>> /\ out_name = <<>> /\ created_files = <<>>
    /\ slicer_log = <<>> /\ split_ret = Nothing

InitWriteLocals ==
    /\ sentences = <<>> /\ translation = <<>> /\ audio_files = <<>>
    /\ tags = Nothing /\ file = NoFile /\ file_opened = FALSE /\ wi = 0

\* build_sentence_start_end called with any words, any buffer
InitAlign ==
    /\ pc = "align_call"
    /\ Idle
    /\ words_ts \in SeqsUpTo(WordTriples, MaxWords)
    /\ audio_buffer \in Buffers
    /\ InitAlignLocals /\ InitSplitLocals /\ InitWriteLocals

NextAlign == AlignEnter \/ AlignStep \/ AlignReturn

SpecAlign == InitAlign /\ [][NextAlign]_vars

-----------------------------------------------------------------------------
(* split_video_into_audio_seg *)

\* what one run of the slicer can do: exit 0, exit non-zero, or never start
\* (subprocess.run raises OSError when ffmpeg cannot be executed)
SlicerOutcomes == {"ok", "nonzero", "oserror"}

\* f"{out_name}-{n}-clip.mp4"
ClipName(name, n) == name \o <<"-">> \o Str(n) \o CLIP

\* created_files.append(fname): the exit status of the slicer is not read
ClipEntry(fname, status) == fname

Labels == {Str(t) : t \in Times}

\* the output directory is made, created_files = []
SplitEnter ==
    /\ pc = "split_call"
    /\ created_files' = <<>>
    /\ pc' = "split"
    /\ UNCHANGED <<err, failed_in, source, json_transcribe_file, save_json_file,
                   tmp_dir, ext_log, data, words_ts, audio_buffer, doc_sents,
                   word_idx, end_word_idx, sentence_ts, align_ret, timestamps,
                   out_name, slicer_log, split_ret, sentences, translation,
                   audio_files, tags, file, file_opened, wi>>

\* one iteration of `for (n, (s, e)) in enumerate(timestamps)`
SplitStep ==
    /\ pc = "split"
    /\ Len(created_files) < Len(timestamps)
    /\ \E status \in SlicerOutcomes :
         LET n == Len(created_files)
             fname == ClipName(out_name, n)
         IN  /\ slicer_log' = Append(slicer_log,
                    [n |-> n, ss |-> timestamps[n + 1][1], to |-> timestamps[n + 1][2],
                     fname |-> fname, status |-> status])
             /\ ext_log' = Append(ext_log, "slicer")
             /\ IF status = "oserror"
                   THEN /\ pc' = "raised" /\ err' = "OSError"
                        /\ failed_in' = "split"
                        /\ UNCHANGED created_files
                   ELSE /\ created_files' = Append(created_files, ClipEntry(fname, status))
                        /\ UNCHANGED <<pc, err, failed_in>>
    /\ UNCHANGED <<source, json_transcribe_file, save_json_file, tmp_dir, data,
                   words_ts, audio_buffer, doc_sents, word_idx, end_word_idx,
                   sentence_ts, align_ret, timestamps, out_name, split_ret,
                   sentences, translation, audio_files, tags, file,
                   file_opened, wi>>

SplitReturn ==
    /\ pc = "split"
    /\ Len(created_files) = Len(timestamps)
    /\ split_ret' = Some(created_files)
    /\ pc' = "split_ret"
    /\ UNCHANGED <<err, failed_in, source, json_transcribe_file, save_json_file,
                   tmp_dir, ext_log, data, words_ts, audio_buffer, doc_sents,
                   word_idx, end_word_idx, sentence_ts, align_ret, timestamps,
                   out_name, created_files, slicer_log, sentences, translation,
                   audio_files, tags, file, file_opened, wi>>

\* split_video_into_audio_seg called with any intervals
InitSplit ==
    /\ pc = "split_call"
    /\ Idle
    /\ words_ts = <<>> /\ audio_buffer = 0
    /\ InitAlignLocals /\ InitWriteLocals
    /\ timestamps \in SeqsUpTo(Labels \X Labels, MaxClips)
    /\ out_name = <<"v">>
    /\ created_files = <<>> /\ slicer_log = <<>> /\ split_ret = Nothing

NextSplit == SplitEnter \/ SplitStep \/ SplitReturn

SpecSplit == InitSplit /\ [][NextSplit]_vars

-----------------------------------------------------------------------------
(* write_anki_import *)

\* assert len(sentences) == len(translation) == len(audio_files)
LengthsAgree_Pair(s, t, a) == Len(s) = Len(t)

LengthsAgree(s, t, a) == Len(s) = Len(t) /\ Len(t) = Len(a)

\* `if tags:` a string that is given and not empty
TagsGiven(t) == t.some /\ t.val # <<>>

\* f"{a}{FILE_DELIM}{sentences[i]}<br>{translation[i]}\n"
RecordLine_Swapped(audio, sentence, trans) ==
    AUDIO_FMT(audio) \o FILE_DELIM \o trans \o BR \o sentence \o <<NL>>

RecordLine(audio, sentence, trans) ==
    AUDIO_FMT(audio) \o FILE_DELIM \o sentence \o BR \o trans \o <<NL>>

WriteEnter ==
    /\ pc = "write_call"
    /\ IF LengthsAgree(sentences, translation, audio_files)
          THEN pc' = "write_open" /\ UNCHANGED <<err, failed_in>>
          ELSE pc' = "raised" /\ err' = "AssertionError" /\ failed_in' = "write"
    /\ UNCHANGED <<source, json_transcribe_file, save_json_file, tmp_dir,
                   ext_log, data, words_ts, audio_buffer, doc_sents, word_idx,
                   end_word_idx, sentence_ts, align_ret, timestamps, out_name,
                   created_files, slicer_log, split_ret, sentences, translation,
                   audio_files, tags, file, file_opened, wi>>

\* open(file_path, "w"): the file is created or truncated, or open fails
WriteOpen ==
    /\ pc = "write_open"
    /\ \/ /\ file' = [exists |-> TRUE, content |-> <<>>]
          /\ file_opened' = TRUE
          /\ pc' = "write_tags"
          /\ UNCHANGED <<err, failed_in>>
       \/ /\ pc' = "raised" /\ err' = "OSError" /\ failed_in' = "write"
          /\ UNCHANGED <<file, file_opened>>
    /\ UNCHANGED <<source, json_transcribe_file, save_json_file, tmp_dir,
                   ext_log, data, words_ts, audio_buffer, doc_sents, word_idx,
                   end_word_idx, sentence_ts, align_ret, timestamps, out_name,
                   created_files, slicer_log, split_ret, sentences, translation,
                   audio_files, tags, wi>>

WriteTags ==
    /\ pc = "write_tags"
    /\ file' = IF TagsGiven(tags)
                 THEN [file EXCEPT !.content = @ \o TAGS(tags.val) \o <<NL>>]
                 ELSE file
    /\ wi' = 0
    /\ pc' = "write_loop"
    /\ UNCHANGED <<err, failed_in, source, json_transcribe_file, save_json_file,
                   tmp_dir, ext_log, data, words_ts, audio_buffer, doc_sents,
                   word_idx, end_word_idx, sentence_ts, align_ret, timestamps,
                   out_name, created_files, slicer_log, split_ret, sentences,
                   translation, audio_files, tags, file_opened>>

\* one iteration of `for i, audio in enumerate(audio_files)`
WriteLine ==
    /\ pc = "write_loop"
    /\ wi < Len(audio_files)
    /\ IF wi >= Len(sentences) \/ wi >= Len(translation)
          THEN /\ pc' = "raised" /\ err' = "IndexError" /\ failed_in' = "write"
               /\ UNCHANGED <<file, wi>>
          ELSE /\ file' = [file EXCEPT !.content = @ \o
                     RecordLine(audio_files[wi + 1], sentences[wi + 1], translation[wi + 1])]
               /\ wi' = wi + 1
               /\ UNCHANGED <<pc, err, failed_in>>
    /\ UNCHANGED <<source, json_transcribe_file, save_json_file, tmp_dir,
                   ext_log, data, words_ts, audio_buffer, doc_sents, word_idx,
                   end_word_idx, sentence_ts, align_ret, timestamps, out_name,
                   created_files, slicer_log, split_ret, sentences, translation,
                   audio_files, tags, file_opened>>

\* the loop is over, the `with` block closes the file
WriteClose ==
    /\ pc = "write_loop"
    /\ wi = Len(audio_files)
    /\ pc' = "write_ret"
    /\ UNCHANGED <<err, failed_in, source, json_transcribe_file, save_json_file,
                   tmp_dir, ext_log, data, words_ts, audio_buffer, doc_sents,
                   word_idx, end_word_idx, sentence_ts, align_ret, timestamps,
                   out_name, created_files, slicer_log, split_ret, sentences,
                   translation, audio_files, tags, file, file_opened, wi>>

SourceTexts == {<<"a">>, <<"b">>}
TranslatedTexts == {<<"x">>, <<"x", NL, "y">>}
FileNames == {<<"c">>, <<"d">>}
TagValues == {Nothing, Some(<<>>), Some(<<"t">>), Some(<<"t", NL, "u">>)}

\* write_anki_import called with any three sequences
InitWrite ==
    /\ pc = "write_call"
    /\ Idle
    /\ words_ts = <<>> /\ audio_buffer = 0
    /\ InitAlignLocals /\ InitSplitLocals
    /\ sentences \in SeqsUpTo(SourceTexts, MaxCards)
    /\ translation \in SeqsUpTo(TranslatedTexts, MaxCards)
    /\ audio_files \in SeqsUpTo(FileNames, MaxCards)
    /\ tags \in TagValues
    /\ file \in {NoFile, OldFile}
    /\ file_opened = FALSE
    /\ wi = 0

NextWrite == WriteEnter \/ WriteOpen \/ WriteTags \/ WriteLine \/ WriteClose

SpecWrite == InitWrite /\ [][NextWrite]_vars

-----------------------------------------------------------------------------
(* build_words_with_ts *)

\* words as the transcript holds them: a dict that may lack a key, a text
\* that may carry surrounding blanks, an end that may precede the start
TranscriptWords ==
    { [word |-> <<SP, "a">>, start |-> 0, end |-> 1],
      [word |-> <<"b">>, start |-> 1, end |-> 0],
      [word |-> <<"a">>, start |-> 0] }

\* the words of all segments, in the order given
RECURSIVE AllWords(_)
AllWords(segs) ==
    IF segs = <<>> THEN <<>> ELSE Head(segs).words \o AllWords(Tail(segs))

\* transcripts of at most MaxSegs segments and MaxWords words
Transcripts ==
    {segs \in SeqsUpTo([words : SeqsUpTo(TranscriptWords, MaxWords)], MaxSegs) :
        Len(AllWords(segs)) <= MaxWords}

\* w["word"], w["start"], w["end"]: a missing key raises KeyError
HasFields(w) == {"word", "start", "end"} \subseteq DOMAIN w

\* (w["word"].strip(), w["start"], w["end"])
WordTuple(w) == <<Strip(w.word), w.start, w.end>>

BuildWordsWithTs(segs) ==
    LET ws == AllWords(segs)
    IN  IF \A j \in 1..Len(ws) : HasFields(ws[j])
        THEN [ok |-> TRUE, val |-> [j \in 1..Len(ws) |-> WordTuple(ws[j])]]
        ELSE [ok |-> FALSE, val |-> <<>>]

-----------------------------------------------------------------------------
(* main *)

\* "youtube" in source and source.startswith("http")
IsRemote(src) == src.has_youtube /\ src.starts_http

\* tmp_dir = TemporaryDirectory(), or source_file = Path(source)
MainSource ==
    /\ pc = "start"
    /\ IF IsRemote(source)
          THEN tmp_dir' = "acquired" /\ pc' = "download"
          ELSE tmp_dir' = tmp_dir /\ pc' = "assert_exists"
    /\ UNCHANGED <<err, failed_in, source, json_transcribe_file,
                   save_json_file, ext_log, data, words_ts, audio_buffer,
                   doc_sents, word_idx, end_word_idx, sentence_ts, align_ret,
                   timestamps, out_name, created_files, slicer_log,
                   split_ret, sentences, translation, audio_files, tags,
                   file, file_opened, wi>>

\* download_youtube_audio(source, tmp_dir.name)
MainDownload ==
    /\ pc = "download"
    /\ ext_log' = Append(ext_log, "download")
    /\ \/ pc' = "assert_exists" /\ UNCHANGED <<err, failed_in>>
       \/ pc' = "raised" /\ err' = "DownloadError" /\ failed_in' = "download"
    /\ UNCHANGED <<source, json_transcribe_file, save_json_file, tmp_dir,
                   data, words_ts, audio_buffer, doc_sents, word_idx,
                   end_word_idx, sentence_ts, align_ret, timestamps,
                   out_name, created_files, slicer_log, split_ret, sentences,
                   translation, audio_files, tags, file, file_opened, wi>>

\* the four assertions on source_file, audio_save_dir and the json paths
MainAssertExists ==
    /\ pc = "assert_exists"
    /\ \/ pc' = "load_models" /\ UNCHANGED <<err, failed_in>>
       \/ pc' = "raised" /\ err' = "AssertionError" /\ failed_in' = "assert_exists"
    /\ UNCHANGED <<source, json_transcribe_file, save_json_file, tmp_dir,
                   ext_log, data, words_ts, audio_buffer, doc_sents,
                   word_idx, end_word_idx, sentence_ts, align_ret,
                   timestamps, out_name, created_files, slicer_log,
                   split_ret, sentences, translation, audio_files, tags,
                   file, file_opened, wi>>

\* spacy.load and enable_pipe
MainLoadModels ==
    /\ pc = "load_models"
    /\ \/ pc' = "translate_setup" /\ UNCHANGED <<err, failed_in>>
       \/ pc' = "raised" /\ err' = "OSError" /\ failed_in' = "load_models"
    /\ UNCHANGED <<source, json_transcribe_file, save_json_file, tmp_dir,
                   ext_log, data, words_ts, audio_buffer, doc_sents,
                   word_idx, end_word_idx, sentence_ts, align_ret,
                   timestamps, out_name, created_files, slicer_log,
                   split_ret, sentences, translation, audio_files, tags,
                   file, file_opened, wi>>

\* translate_setup(input_language, output_language): the package index is
\* updated, the language package downloaded and installed
MainTranslateSetup ==
    /\ pc = "translate_setup"
    /\ ext_log' = Append(ext_log, "translate_setup")
    /\ \/ pc' = "transcript" /\ UNCHANGED <<err, failed_in>>
       \/ pc' = "raised" /\ err' = "StopIteration" /\ failed_in' = "translate_setup"
    /\ UNCHANGED <<source, json_transcribe_file, save_json_file, tmp_dir,
                   data, words_ts, audio_buffer, doc_sents, word_idx,
                   end_word_idx, sentence_ts, align_ret, timestamps,
                   out_name, created_files, slicer_log, split_ret, sentences,
                   translation, audio_files, tags, file, file_opened, wi>>

\* the transcript is read from json_transcribe_file, or made by transcribe
\* and saved to save_json_file
MainLoadTranscript ==
    /\ pc = "transcript"
    /\ ext_log' = IF json_transcribe_file THEN ext_log ELSE Append(ext_log, "transcribe")
    /\ \/ /\ \E segs \in Transcripts : data' = segs
          /\ pc' = "flatten"
          /\ UNCHANGED <<err, failed_in>>
       \/ /\ pc' = "raised" /\ err' = "OSError" /\ failed_in' = "transcript"
          /\ UNCHANGED data
    /\ UNCHANGED <<source, json_transcribe_file, save_json_file, tmp_dir,
                   words_ts, audio_buffer, doc_sents, word_idx, end_word_idx,
                   sentence_ts, align_ret, timestamps, out_name,
                   created_files, slicer_log, split_ret, sentences,
                   translation, audio_files, tags, file, file_opened, wi>>

\* words_ts = build_words_with_ts(data)
MainFlatten ==
    /\ pc = "flatten"
    /\ LET r == BuildWordsWithTs(data)
       IN  IF r.ok
           THEN words_ts' = r.val /\ pc' = "tokenize" /\ UNCHANGED <<err, failed_in>>
           ELSE /\ pc' = "raised" /\ err' = "KeyError" /\ failed_in' = "flatten"
                /\ UNCHANGED words_ts
    /\ UNCHANGED <<source, json_transcribe_file, save_json_file, tmp_dir,
                   ext_log, data, audio_buffer, doc_sents, word_idx,
                   end_word_idx, sentence_ts, align_ret, timestamps,
                   out_name, created_files, slicer_log, split_ret, sentences,
                   translation, audio_files, tags, file, file_opened, wi>>

\* src_txt = " ".join(...); doc = es_nlp(src_txt); build_sentence_start_end
\* is called
MainTokenize ==
    /\ pc = "tokenize"
    /\ pc' = "align_call"
    /\ UNCHANGED <<err, failed_in, source, json_transcribe_file,
                   save_json_file, tmp_dir, ext_log, data, words_ts,
                   audio_buffer, doc_sents, word_idx, end_word_idx,
                   sentence_ts, align_ret, timestamps, out_name,
                   created_files, slicer_log, split_ret, sentences,
                   translation, audio_files, tags, file, file_opened, wi>>

\* _ts = [(str(s), str(e)) ...]; split_video_into_audio_seg is called
MainAfterAlign ==
    /\ pc = "align_ret"
    /\ timestamps' = [k \in 1..Len(align_ret.val) |->
                         <<Str(align_ret.val[k][1]), Str(align_ret.val[k][2])>>]
    /\ out_name' = <<"v">>
    /\ pc' = "split_call"
    /\ UNCHANGED <<err, failed_in, source, json_transcribe_file,
                   save_json_file, tmp_dir, ext_log, data, words_ts,
                   audio_buffer, doc_sents, word_idx, end_word_idx,
                   sentence_ts, align_ret, created_files, slicer_log,
                   split_ret, sentences, translation, audio_files, tags,
                   file, file_opened, wi>>

\* sents = [t ...]; translations = translate_sentences(sents, ...): one
\* call of the engine per sentence
MainTranslate ==
    /\ pc = "split_ret"
    /\ LET cnt == Len(align_ret.val)
       IN  \/ /\ \E t \in TranslatedTexts : translation' = [k \in 1..cnt |-> t]
              /\ ext_log' = ext_log \o [k \in 1..cnt |-> "translate"]
              /\ pc' = "translated"
              /\ UNCHANGED <<err, failed_in>>
           \/ /\ cnt > 0
              /\ ext_log' = Append(ext_log, "translate")
              /\ pc' = "raised" /\ err' = "TranslateError" /\ failed_in' = "translate"
              /\ UNCHANGED translation
    /\ UNCHANGED <<source, json_transcribe_file, save_json_file, tmp_dir,
                   data, words_ts, audio_buffer, doc_sents, word_idx,
                   end_word_idx, sentence_ts, align_ret, timestamps,
                   out_name, created_files, slicer_log, split_ret, sentences,
                   audio_files, tags, file, file_opened, wi>>

\* write_anki_import(f"./{base_name}.txt", sents, translations, created_files)
MainWriteCall ==
    /\ pc = "translated"
    /\ sentences' = [k \in 1..Len(align_ret.val) |-> align_ret.val[k][3]]
    /\ audio_files' = split_ret.val
    /\ tags' = Nothing
    /\ pc' = "write_call"
    /\ UNCHANGED <<err, failed_in, source, json_transcribe_file,
                   save_json_file, tmp_dir, ext_log, data, words_ts,
                   audio_buffer, doc_sents, word_idx, end_word_idx,
                   sentence_ts, align_ret, timestamps, out_name,
                   created_files, slicer_log, split_ret, translation, file,
                   file_opened, wi>>

MainDone ==
    /\ pc = "write_ret"
    /\ pc' = "done"
    /\ UNCHANGED <<err, failed_in, source, json_transcribe_file,
                   save_json_file, tmp_dir, ext_log, data, words_ts,
                   audio_buffer, doc_sents, word_idx, end_word_idx,
                   sentence_ts, align_ret, timestamps, out_name,
                   created_files, slicer_log, split_ret, sentences,
                   translation, audio_files, tags, file, file_opened, wi>>

\* the temporary directory once main has returned or the exception has
\* ended the interpreter: the TemporaryDirectory object is finalized
TmpDirAtExit_OnSuccess(t, how) ==
    IF t = "acquired" /\ how = "done" THEN "released" ELSE t

TmpDirAtExit(t, how) == IF t = "acquired" THEN "released" ELSE t

\* the run ends, by main's return or by the exception leaving main
MainExit ==
    /\ pc \in {"done", "raised"}
    /\ tmp_dir' = TmpDirAtExit(tmp_dir, pc)
    /\ pc' = "exited"
    /\ UNCHANGED <<err, failed_in, source, json_transcribe_file,
                   save_json_file, ext_log, data, words_ts, audio_buffer,
                   doc_sents, word_idx, end_word_idx, sentence_ts, align_ret,
                   timestamps, out_name, created_files, slicer_log,
                   split_ret, sentences, translation, audio_files, tags,
                   file, file_opened, wi>>

Init ==
    /\ pc = "start"
    /\ err = "none" /\ failed_in = "none"
    /\ source \in [has_youtube : BOOLEAN, starts_http : BOOLEAN]
    /\ json_transcribe_file \in BOOLEAN
    /\ save_json_file \in BOOLEAN
    /\ tmp_dir = "none" /\ ext_log = <<>> /\ data = <<>>
    /\ words_ts = <<>>
    /\ audio_buffer \in {0, MaxBuffer}
    /\ InitAlignLocals /\ InitSplitLocals /\ InitWriteLocals

Next ==
    \/ MainSource \/ MainDownload \/ MainAssertExists \/ MainLoadModels
    \/ MainTranslateSetup \/ MainLoadTranscript \/ MainFlatten \/ MainTokenize
    \/ AlignEnter \/ AlignStep \/ AlignReturn \/ MainAfterAlign
    \/ SplitEnter \/ SplitStep \/ SplitReturn \/ MainTranslate \/ MainWriteCall
    \/ WriteEnter \/ WriteOpen \/ WriteTags \/ WriteLine \/ WriteClose
    \/ MainDone \/ MainExit

Spec == Init /\ [][Next]_vars

-----------------------------------------------------------------------------
(* Claims about build_sentence_start_end, under SpecAlign *)

TokenCount(s) == Len(Split(s, SP))
FirstToken(s) == Split(s, SP)[1]

\* the cursor at sentence k: the token counts of the sentences before it
RECURSIVE CursorAt(_)
CursorAt(k) == IF k <= 1 THEN 0 ELSE CursorAt(k - 1) + TokenCount(doc_sents[k - 1])

MismatchAt(k) ==
    /\ CursorAt(k) < Len(words_ts)
    /\ FirstToken(doc_sents[k]) # words_ts[CursorAt(k) + 1][1]

\* C1: a sentence whose first token differs from the text of the word at the
\* cursor ends the pass at that sentence with the assertion's error, and the
\* caller receives nothing, not even the entries of the sentences before it.
C1_MismatchFailsWholePass ==
    \A k \in 1..Len(doc_sents) :
        MismatchAt(k) =>
            /\ k = Len(doc_sents)
            /\ pc = "raised"
            /\ err = "AssertionError"
            /\ align_ret = Nothing
            /\ Len(sentence_ts) = k - 1

C1_Witness ==
    /\ Len(doc_sents) = 2
    /\ MismatchAt(2)
    /\ Len(sentence_ts) = 1
    /\ pc = "raised"

\* C3: a pass that returns has consumed every word: the cursor equals
\* len(words_ts); leftover words do not come back as a success.
C3_CursorEqualsLenOnReturn ==
    align_ret.some => word_idx = Len(words_ts)

\* C4: a pass that returns gives one entry per sentence, in order, entry k
\* being (start, end, S[k]) with start the first word's start less the
\* buffer when that start is positive, the start itself otherwise, and end
\* the last word's end plus the buffer.
C4_ResultEntries ==
    (align_ret.some /\ audio_buffer >= 0) =>
        /\ Len(align_ret.val) = Len(doc_sents)
        /\ \A k \in 1..Len(doc_sents) :
              LET c == CursorAt(k)
                  n == TokenCount(doc_sents[k])
                  rawStart == words_ts[c + 1][2]
              IN  align_ret.val[k] =
                      <<IF rawStart > 0 THEN rawStart - audio_buffer ELSE rawStart,
                        words_ts[c + n][3] + audio_buffer,
                        doc_sents[k]>>

C4_Witness ==
    /\ align_ret.some
    /\ Len(align_ret.val) = 2
    /\ audio_buffer = 1
    /\ words_ts[1][2] = 0
    /\ words_ts[2][2] = 1

\* start >= 0, end >= start, start non-decreasing
WordInvariants(W) ==
    \A j \in 1..Len(W) :
        /\ W[j][2] >= 0
        /\ W[j][3] >= W[j][2]
        /\ j > 1 => W[j - 1][2] <= W[j][2]

\* C5 as stated: over well-formed words and a buffer >= 0 every emitted
\* entry has end strictly greater than start.
C5_EndStrictlyAfterStart ==
    (WordInvariants(words_ts) /\ audio_buffer >= 0) =>
        \A k \in 1..Len(sentence_ts) : sentence_ts[k][2] > sentence_ts[k][1]

\* C5 as amended: over well-formed words and a buffer >= 0 every emitted
\* entry has end >= start.
C5_EndNotBeforeStart ==
    (WordInvariants(words_ts) /\ audio_buffer >= 0) =>
        \A k \in 1..Len(sentence_ts) : sentence_ts[k][2] >= sentence_ts[k][1]

C5_Witness ==
    /\ WordInvariants(words_ts)
    /\ audio_buffer >= 0
    /\ \E k \in 1..Len(sentence_ts) :
          /\ sentence_ts[k][2] = sentence_ts[k][1]
          /\ sentence_ts[k][1] > 0

-----------------------------------------------------------------------------
(* Claims about split_video_into_audio_seg, under SpecSplit *)

\* C6: the slicer runs once per index, in index order, whatever fails, and
\* the result has one entry per index: the clip's file name where the
\* slicer succeeded, a failure marker (not the file name) where it failed.
C6_PerIndexResult ==
    split_ret.some =>
        /\ Len(slicer_log) = Len(timestamps)
        /\ Len(split_ret.val) = Len(timestamps)
        /\ \A j \in 1..Len(timestamps) :
              LET fname == out_name \o <<"-">> \o Str(j - 1) \o
                           <<"-", "c", "l", "i", "p", ".", "m", "p", "4">>
              IN  /\ slicer_log[j].n = j - 1
                  /\ slicer_log[j].status = "ok" => split_ret.val[j] = fname
                  /\ slicer_log[j].status # "ok" => split_ret.val[j] # fname

-----------------------------------------------------------------------------
(* Claims about write_anki_import, under SpecWrite *)

AllSameLength ==
    Len(sentences) = Len(translation) /\ Len(sentences) = Len(audio_files)

\* C7: called with sequences that do not all have the same length, the
\* function fails before the file is opened: the file is as it was, neither
\* created nor truncated nor written.
C7_MismatchWritesNothing ==
    ~AllSameLength =>
        /\ ~file_opened
        /\ file \in {NoFile, OldFile}
        /\ pc \in {"write_call", "raised"}
        /\ pc = "raised" => err = "AssertionError"

C7_Witness ==
    /\ Len(sentences) = 2
    /\ Len(translation) = 2
    /\ Len(audio_files) = 1
    /\ pc = "raised"
    /\ file = OldFile

HasLineBreak(t) == \E j \in 1..Len(t) : t[j] = NL

NoLineBreaks ==
    /\ \A j \in 1..Len(sentences) : ~HasLineBreak(sentences[j])
    /\ \A j \in 1..Len(translation) : ~HasLineBreak(translation[j])
    /\ \A j \in 1..Len(audio_files) : ~HasLineBreak(audio_files[j])
    /\ ~HasLineBreak(tags.val)

\* the lines of a text in which every line ends with a line break
Lines(content) ==
    LET pieces == Split(content, NL) IN SubSeq(pieces, 1, Len(pieces) - 1)

EveryLineEnded(content) ==
    LET pieces == Split(content, NL) IN pieces[Len(pieces)] = <<>>

ExpectedLines ==
    (IF tags.some /\ tags.val # <<>>
        THEN << <<"#", "t", "a", "g", "s", ":">> \o tags.val >>
        ELSE <<>>)
    \o [j \in 1..Len(audio_files) |->
            <<"[", "s", "o", "u", "n", "d", ":">> \o audio_files[j] \o <<"]", ";">>
            \o sentences[j] \o <<"<", "b", "r", ">">> \o translation[j]]

\* C8: called with three sequences of one length n and texts without line
\* breaks, the file holds the line #tags:{tags} first exactly when a
\* non-empty tag string was given, then n record lines in index order,
\* line i being [sound:{audio_files[i]}];{sentences[i]}<br>{translation[i]}.
C8_FileLines ==
    (pc = "write_ret" /\ AllSameLength /\ NoLineBreaks) =>
        /\ file.exists
        /\ EveryLineEnded(file.content)
        /\ Lines(file.content) = ExpectedLines

C8_Witness ==
    /\ pc = "write_ret"
    /\ NoLineBreaks
    /\ Len(audio_files) = 2
    /\ sentences[1] # sentences[2]
    /\ audio_files[1] # audio_files[2]
    /\ tags = Some(<<"t">>)

-----------------------------------------------------------------------------
(* Claims about main, under Spec *)

\* C2: a run in which flattening or alignment fails has not run the slicer,
\* has not started any work of the translation engine, and has not written
\* the card file.
C2_FailFastNoExternalWork ==
    failed_in \in {"flatten", "align"} =>
        /\ \A j \in 1..Len(ext_log) :
              ext_log[j] \notin {"slicer", "translate_setup", "translate"}
        /\ ~file_opened
        /\ file = NoFile

\* a word lacks its text, start or end, or ends before it starts
Malformed(segs) ==
    \E j \in 1..Len(AllWords(segs)) :
        LET w == AllWords(segs)[j]
        IN  \/ ~({"word", "start", "end"} \subseteq DOMAIN w)
            \/ w.end < w.start

\* C9: a transcript with a malformed word makes build_words_with_ts fail:
\* the run is at the call or has failed in it, and never gets a word sequence
\* from it nor reaches alignment.
C9_MalformedTranscriptRejected ==
    Malformed(data) => (pc = "flatten" \/ failed_in = "flatten")

=============================================================================
